---- MODULE Spec2Model ----
(***************************************************************************)
(* Model of foremast/configs/prepare_configs.py: the two configuration     *)
(* loaders process_git_configs (GitLab) and process_runway_configs (local  *)
(* directory).  One call of one loader is a run of the state machine; each *)
(* step is one request to the outside world (token file, GitLab call, file *)
(* open) together with the code that handles its answer.                   *)
(*                                                                         *)
(* The GitLab client is outside the module: getproject and getbranch are   *)
(* taken to answer, and getfile to answer either with a blob or with a     *)
(* falsy value.                                                            *)
(***************************************************************************)
EXTENDS Integers, Sequences, FiniteSets, TLC

\* ------------------------------------------------------------------ bounds
\* at most this many of the 8 application files exist at the start of a call
MaxPresent == 2
\* at most this many pushes land on master during one call (SpecPush only)
MaxPushes == 1
\* at most this many application files exist when a call under SpecPush starts
MaxPresentPush == 1

\* ------------------------------------------------------- program constants
\* variant: the environments iterated in alphabetical order
ENVS_Sorted == <<"build", "dev", "prod", "prodp", "prods", "stage", "stagepci", "stagesox">>

ENVS == <<"build", "dev", "stage", "prod", "prodp", "stagepci", "prods", "stagesox">>

EnvSet == {ENVS[n] : n \in 1..Len(ENVS)}

JSON_ERROR_MSG(name) ==
    "\"" \o name \o "\" appears to be invalid json. Please validate it with http://jsonlint.com."

TOKEN_MISSING_MSG(path) == "GitLab private token file missing: " \o path

\* ------------------------------------------------------------- JSON values
\* A JSON value: kind is "object", "array" or "null"; an object has members,
\* a set of <<key, member value>>; an array has items.  ValueError stands for
\* json.loads raising.
JString(s) == [t |-> "string", v |-> <<s>>]
JList(xs)  == [t |-> "array", v |-> xs]
JObject(ms) == [kind |-> "object", members |-> ms, items |-> <<>>]
JArray(xs)  == [kind |-> "array", members |-> {}, items |-> xs]
JNull       == [kind |-> "null", members |-> {}, items |-> <<>>]
ValueError  == [kind |-> "ValueError", members |-> {}, items |-> <<>>]

HasKey(j, k) == j.kind = "object" /\ \E m \in j.members : m[1] = k
GetKey(j, k) == (CHOOSE m \in j.members : m[1] = k)[2]

\* the file texts the directory or the repository may hold
TxtObj      == "{\"instance_type\":\"m5.large\"}"
TxtObjSpace == "{ \"instance_type\" : \"m5.large\" }"
TxtPipe     == "{\"env\":[\"stage\"],\"config_commit\":\"old\"}"
TxtArray    == "[\"stage\"]"
TxtNull     == "null"
TxtBad      == "{bad"

Texts == {TxtObj, TxtObjSpace, TxtPipe, TxtArray, TxtNull, TxtBad}

\* the texts the application files hold at the start of a call
EnvTexts == {TxtObj, TxtObjSpace, TxtArray, TxtBad}

\* the texts the files of the remote repository hold under SpecPush
PushTexts == {TxtObj, TxtBad}

\* json.loads / json.load on each of the texts
json_loads(text) ==
    CASE text = TxtObj      -> JObject({<<"instance_type", JString("m5.large")>>})
      [] text = TxtObjSpace -> JObject({<<"instance_type", JString("m5.large")>>})
      [] text = TxtPipe     -> JObject({<<"env", JList(<<"stage">>)>>,
                                        <<"config_commit", JString("old")>>})
      [] text = TxtArray    -> JArray(<<"stage">>)
      [] text = TxtNull     -> JNull
      [] OTHER              -> ValueError

\* the transport encoding of a blob's content and base64.b64decode
b64encode(text) == [enc |-> "base64", data |-> text]
b64decode(content) == content.data

\* ------------------------------------------------------------- file names
Files == EnvSet \cup {"pipeline"}

\* 'runway/application-master-{env}.json'
AppJson(env) == "runway/application-master-" \o env \o ".json"
\* 'application-master-{env}.json'
FileJson(env) == "application-master-" \o env \o ".json"
\* os.path.join(runway_dir, name)
PathJoin(dir, name) == IF dir = "" THEN name ELSE dir \o "/" \o name

PIPELINE_JSON == "runway/pipeline.json"

\* a file of the tree: missing, or present with a text
NoFile == [present |-> FALSE, text |-> ""]
IsFile(text) == [present |-> TRUE, text |-> text]

\* the path of a tracked file in the remote repository
RemotePath(f) == IF f = "pipeline" THEN PIPELINE_JSON ELSE AppJson(f)
\* the path of a tracked file under runway_dir
LocalPath(dir, f) ==
    IF f = "pipeline" THEN PathJoin(dir, "pipeline.json") ELSE PathJoin(dir, FileJson(f))

\* commit identifiers of master, oldest first
Sha == <<"c1", "c2", "c3", "c4">>

VARIABLES
    mode,        \* "git": process_git_configs, "runway": process_runway_configs
    token_ok,    \* the token file exists
    runway_dir,  \* argument of process_runway_configs
    tree,        \* tracked file -> its state now (master's tree, or the directory)
    history,     \* the tree at each commit of master, oldest first
    pc,          \* position of the call
    idx,         \* position of the loop over ENVS
    app_configs, \* the bundle being built
    requests,    \* the requests issued so far, in order
    outcome,     \* "running", "returned", "fatal" (SystemExit), "error" (TypeError)
    msg,         \* the SystemExit message
    project_id   \* the id getproject answered, 0 before

vars == <<mode, token_ok, runway_dir, tree, history, pc, idx, app_configs,
          requests, outcome, msg, project_id>>

TOKEN_FILE == "gitlab.token"
GIT_SHORT == "forrest/core"
PROJECT_ID == 7

Req(op, arg) == [op |-> op, arg |-> arg]

\* variant: an environment's entry stored under its file name
StoreConfigByFile(cfgs, key, value) ==
    LET name == IF key = "pipeline" THEN key ELSE FileJson(key)
    IN  [k \in DOMAIN cfgs \cup {name} |-> IF k = name THEN value ELSE cfgs[k]]

\* collections.defaultdict(dict), nothing stored yet
EmptyConfigs == [k \in {} |-> JNull]

\* app_configs[key] = value
StoreConfig(cfgs, key, value) == [k \in DOMAIN cfgs \cup {key} |-> IF k = key THEN value ELSE cfgs[k]]

\* variant: a default pipeline that targets stage only
DefaultPipelineStageOnly == [kind |-> "object", members |-> {<<"env", JList(<<"stage">>)>>}, items |-> <<>>]

\* {'env': ['stage', 'prod']}
DefaultPipeline == JObject({<<"env", JList(<<"stage", "prod">>)>>})

\* ------------------------------------------------------------------- Init
Trees ==
    { [f \in Files |-> IF f = "pipeline" THEN p ELSE IF f \in S THEN IsFile(g[f]) ELSE NoFile] :
        <<S, g, p>> \in UNION { UNION { { <<S1, g1, p1>> : p1 \in {NoFile} \cup {IsFile(t) : t \in Texts} }
                                         : g1 \in [S1 -> EnvTexts] }
                                 : S1 \in {S2 \in SUBSET EnvSet : Cardinality(S2) <= MaxPresent} } }

Init ==
    /\ mode \in {"git", "runway"}
    /\ token_ok \in (IF mode = "git" THEN BOOLEAN ELSE {TRUE})
    /\ runway_dir \in (IF mode = "runway" THEN {"", "runway"} ELSE {""})
    /\ tree \in Trees
    /\ history = <<tree>>
    /\ pc = IF mode = "git" THEN "token" ELSE "env"
    /\ idx = 1
    /\ app_configs = EmptyConfigs
    /\ requests = <<>>
    /\ outcome = "running"
    /\ msg = ""
    /\ project_id = 0

\* ------------------------------------------------------------ environment
\* server.getfile(project_id, path, ref): a blob, or a falsy answer when the
\* path does not exist on the ref
getfile(t, path) ==
    LET f == CHOOSE f \in Files : RemotePath(f) = path
    IN  IF t[f].present THEN [found |-> TRUE, content |-> b64encode(t[f].text)]
        ELSE [found |-> FALSE, content |-> b64encode("")]

\* server.getbranch(project_id, 'master')['commit']['id']
getbranch(h) == Sha[Len(h)]

\* open(path): the file of the directory at that path
open(t, dir, path) == t[CHOOSE f \in Files : LocalPath(dir, f) = path]

\* ----------------------------------------------------------------- helpers
\* variant: the parse error is swallowed
RaisesNever(parsed) == FALSE

\* json.loads raised ValueError (the except ValueError clauses)
Raises(parsed) == parsed = ValueError

\* variant: looking the environment up in the defaultdict creates an empty entry
SkipEnvVivify(cfgs, env) ==
    [k \in DOMAIN cfgs \cup {env} |-> IF k = env THEN JObject({}) ELSE cfgs[k]]

\* the file of an environment is not there: continue, nothing is stored
SkipEnv(cfgs, env) == cfgs

\* d[key] = value on a parsed JSON object
SetItem(j, k, v) == JObject({m \in j.members : m[1] # k} \cup {<<k, v>>})

\* variant: the commit is written into every entry of the bundle
InjectCommitAll(cfgs, commit) ==
    [k \in DOMAIN cfgs |-> SetItem(cfgs[k], "config_commit", JString(commit))]

\* variant: setdefault, a config_commit of the file is kept
InjectCommitKeep(cfgs, commit) ==
    IF HasKey(cfgs["pipeline"], "config_commit") THEN cfgs
    ELSE [cfgs EXCEPT !["pipeline"] = SetItem(@, "config_commit", JString(commit))]

\* app_configs['pipeline']['config_commit'] = config_commit
InjectCommit(cfgs, commit) ==
    [cfgs EXCEPT !["pipeline"] = SetItem(@, "config_commit", JString(commit))]

\* the for loop moves to the next environment, or falls through to the pipeline
NextPc(n) == IF n = Len(ENVS) THEN "pipeline" ELSE "env"
NextIdx(n) == IF n = Len(ENVS) THEN n ELSE n + 1

Fatal(m) == /\ outcome' = "fatal" /\ msg' = m /\ pc' = "done"

\* ----------------------------------------------------- process_git_configs
\* variant: a missing token file is read as an empty token
ReadTokenProceeds ==
    /\ mode = "git" /\ pc = "token"
    /\ requests' = Append(requests, Req("open", TOKEN_FILE))
    /\ pc' = "project"
    /\ UNCHANGED <<mode, token_ok, runway_dir, tree, history, idx, app_configs, project_id,
                   outcome, msg>>

\* open(token_file): SystemExit when it is missing
ReadToken ==
    /\ mode = "git" /\ pc = "token"
    /\ requests' = Append(requests, Req("open", TOKEN_FILE))
    /\ IF token_ok
         THEN /\ pc' = "project" /\ UNCHANGED <<outcome, msg>>
         ELSE Fatal(TOKEN_MISSING_MSG(TOKEN_FILE))
    /\ UNCHANGED <<mode, token_ok, runway_dir, tree, history, idx, app_configs, project_id>>

\* gitlab.Gitlab(GIT_URL, token) and server.getproject(git_short)['id']
GetProject ==
    /\ mode = "git" /\ pc = "project"
    /\ requests' = Append(requests, Req("getproject", GIT_SHORT))
    /\ project_id' = PROJECT_ID
    /\ pc' = "env"
    /\ UNCHANGED <<mode, token_ok, runway_dir, tree, history, idx, app_configs, outcome, msg>>

\* one iteration of the loop over ENVS
GitEnv ==
    /\ mode = "git" /\ pc = "env"
    /\ LET env == ENVS[idx]
           app_json == AppJson(env)
           file_blob == getfile(tree, app_json)
           parsed == json_loads(b64decode(file_blob.content))
       IN  /\ requests' = Append(requests, Req("getfile", app_json))
           /\ IF ~file_blob.found
                THEN /\ app_configs' = SkipEnv(app_configs, env)
                     /\ pc' = NextPc(idx) /\ idx' = NextIdx(idx)
                     /\ UNCHANGED <<outcome, msg>>
                ELSE IF Raises(parsed)
                       THEN /\ Fatal(JSON_ERROR_MSG(app_json))
                            /\ UNCHANGED <<app_configs, idx>>
                       ELSE /\ app_configs' = StoreConfig(app_configs, env, parsed)
                            /\ pc' = NextPc(idx) /\ idx' = NextIdx(idx)
                            /\ UNCHANGED <<outcome, msg>>
    /\ UNCHANGED <<mode, token_ok, runway_dir, tree, history, project_id>>

\* runway/pipeline.json, or the default
GitPipeline ==
    /\ mode = "git" /\ pc = "pipeline"
    /\ LET pipeline_blob == getfile(tree, PIPELINE_JSON)
           parsed == json_loads(b64decode(pipeline_blob.content))
       IN  /\ requests' = Append(requests, Req("getfile", PIPELINE_JSON))
           /\ IF ~pipeline_blob.found
                THEN /\ app_configs' = StoreConfig(app_configs, "pipeline", DefaultPipeline)
                     /\ pc' = "branch"
                     /\ UNCHANGED <<outcome, msg>>
                ELSE IF Raises(parsed)
                       THEN /\ Fatal(JSON_ERROR_MSG(PIPELINE_JSON))
                            /\ UNCHANGED app_configs
                       ELSE /\ app_configs' = StoreConfig(app_configs, "pipeline", parsed)
                            /\ pc' = "branch"
                            /\ UNCHANGED <<outcome, msg>>
    /\ UNCHANGED <<mode, token_ok, runway_dir, tree, history, idx, project_id>>

\* the commit of master goes into the pipeline entry; the item assignment
\* raises TypeError when the entry is not a dict
GitBranch ==
    /\ mode = "git" /\ pc = "branch"
    /\ LET config_commit == getbranch(history)
       IN  /\ requests' = Append(requests, Req("getbranch", "master"))
           /\ IF app_configs["pipeline"].kind = "object"
                THEN /\ app_configs' = InjectCommit(app_configs, config_commit)
                     /\ outcome' = "returned"
                ELSE /\ outcome' = "error"
                     /\ UNCHANGED app_configs
    /\ pc' = "done"
    /\ UNCHANGED <<mode, token_ok, runway_dir, tree, history, idx, msg, project_id>>

\* -------------------------------------------------- process_runway_configs
\* one iteration of the loop over ENVS
RunwayEnv ==
    /\ mode = "runway" /\ pc = "env"
    /\ LET env == ENVS[idx]
           file_json == FileJson(env)
           file_name == PathJoin(runway_dir, file_json)
           json_file == open(tree, runway_dir, file_name)
           parsed == json_loads(json_file.text)
       IN  /\ requests' = Append(requests, Req("open", file_name))
           /\ IF ~json_file.present
                THEN /\ app_configs' = SkipEnv(app_configs, env)
                     /\ pc' = NextPc(idx) /\ idx' = NextIdx(idx)
                     /\ UNCHANGED <<outcome, msg>>
                ELSE IF Raises(parsed)
                       THEN /\ Fatal(JSON_ERROR_MSG(file_json))
                            /\ UNCHANGED <<app_configs, idx>>
                       ELSE /\ app_configs' = StoreConfig(app_configs, env, parsed)
                            /\ pc' = NextPc(idx) /\ idx' = NextIdx(idx)
                            /\ UNCHANGED <<outcome, msg>>
    /\ UNCHANGED <<mode, token_ok, runway_dir, tree, history, project_id>>

\* variant: the local loader stamps the pipeline entry as the remote one does
RunwayPipelineStamped ==
    /\ mode = "runway" /\ pc = "pipeline"
    /\ LET pipeline_file == PathJoin(runway_dir, "pipeline.json")
           pipeline == open(tree, runway_dir, pipeline_file)
           parsed == json_loads(pipeline.text)
           stored == IF pipeline.present THEN parsed ELSE DefaultPipeline
       IN  /\ requests' = Append(requests, Req("open", pipeline_file))
           /\ IF pipeline.present /\ Raises(parsed)
                THEN /\ Fatal(JSON_ERROR_MSG(pipeline_file))
                     /\ UNCHANGED app_configs
                ELSE /\ app_configs' = StoreConfig(app_configs, "pipeline",
                                           SetItem(stored, "config_commit", JString("local")))
                     /\ outcome' = "returned" /\ pc' = "done"
                     /\ UNCHANGED msg
    /\ UNCHANGED <<mode, token_ok, runway_dir, tree, history, idx, project_id>>

\* pipeline.json, or the default; then the bundle is returned
RunwayPipeline ==
    /\ mode = "runway" /\ pc = "pipeline"
    /\ LET pipeline_file == PathJoin(runway_dir, "pipeline.json")
           pipeline == open(tree, runway_dir, pipeline_file)
           parsed == json_loads(pipeline.text)
       IN  /\ requests' = Append(requests, Req("open", pipeline_file))
           /\ IF ~pipeline.present
                THEN /\ app_configs' = StoreConfig(app_configs, "pipeline", DefaultPipeline)
                     /\ outcome' = "returned" /\ pc' = "done"
                     /\ UNCHANGED msg
                ELSE IF Raises(parsed)
                       THEN /\ Fatal(JSON_ERROR_MSG(pipeline_file))
                            /\ UNCHANGED app_configs
                       ELSE /\ app_configs' = StoreConfig(app_configs, "pipeline", parsed)
                            /\ outcome' = "returned" /\ pc' = "done"
                            /\ UNCHANGED msg
    /\ UNCHANGED <<mode, token_ok, runway_dir, tree, history, idx, project_id>>

\* ------------------------------------------------------------ the remote
\* somebody pushes to master while process_git_configs runs: one tracked file
\* is added, changed or deleted, and master has a new commit
Push ==
    /\ mode = "git" /\ outcome = "running"
    /\ Len(history) <= MaxPushes
    /\ \E f \in Files, c \in {NoFile} \cup {IsFile(t) : t \in PushTexts} :
         /\ c # tree[f]
         /\ tree' = [tree EXCEPT ![f] = c]
         /\ history' = Append(history, tree')
    /\ UNCHANGED <<mode, token_ok, runway_dir, pc, idx, app_configs, requests,
                   outcome, msg, project_id>>

Next ==
    \/ ReadToken
    \/ GetProject
    \/ GitEnv
    \/ GitPipeline
    \/ GitBranch
    \/ RunwayEnv
    \/ RunwayPipeline

Spec == Init /\ [][Next]_vars

InitPush ==
    /\ Init
    /\ mode = "git"
    /\ Cardinality({f \in EnvSet : tree[f].present}) <= MaxPresentPush
    /\ \A f \in Files : tree[f].present => tree[f].text \in PushTexts

NextPush ==
    \/ ReadToken
    \/ GetProject
    \/ GitEnv
    \/ GitPipeline
    \/ GitBranch
    \/ Push

SpecPush == InitPush /\ [][NextPush]_vars

\* =================================================================== claims
\* the names and values the claims speak of, written out
FixedEnvNames == {"build", "dev", "stage", "prod", "prodp", "stagepci", "prods", "stagesox"}

FileOrder == <<"build", "dev", "stage", "prod", "prodp", "stagepci", "prods", "stagesox",
               "pipeline">>

BadText(text) == text = "{bad"

\* the tracked file exists and is not JSON
Malformed(f) == tree[f].present /\ BadText(tree[f].text)
WellFormed(f) == tree[f].present /\ ~BadText(tree[f].text)

AnyMalformed == \E f \in Files : Malformed(f)

\* the first malformed file in the order the loaders read them
FirstBad == FileOrder[CHOOSE n \in 1..Len(FileOrder) :
                /\ Malformed(FileOrder[n])
                /\ \A k \in 1..(n - 1) : ~Malformed(FileOrder[k])]

\* the name the invalid-json message gives a tracked file
NameInMsg(f) ==
    IF mode = "git"
      THEN (IF f = "pipeline" THEN "runway/pipeline.json"
            ELSE "runway/application-master-" \o f \o ".json")
      ELSE (IF f = "pipeline"
              THEN (IF runway_dir = "" THEN "pipeline.json" ELSE runway_dir \o "/pipeline.json")
              ELSE "application-master-" \o f \o ".json")

InvalidJsonMsg(f) ==
    "\"" \o NameInMsg(f) \o "\" appears to be invalid json. Please validate it with http://jsonlint.com."

TokenMissing == mode = "git" /\ ~token_ok

Returned == outcome = "returned"

\* the position of the request for the n-th environment file
ReqPos(n) == IF mode = "git" THEN n + 2 ELSE n

\* C1: every returned bundle has the pipeline key, and every other key is one
\* of the 8 fixed environment names, in both loaders.
Thm_C1_KeySet ==
    Returned =>
        /\ "pipeline" \in DOMAIN app_configs
        /\ DOMAIN app_configs \subseteq FixedEnvNames \cup {"pipeline"}

Wit_C1 ==
    /\ Returned
    /\ Cardinality(DOMAIN app_configs) = 3
    /\ "stagesox" \in DOMAIN app_configs

\* C2: an environment whose file is absent never gets an entry in the bundle,
\* and the call does not stop at it: after the request for an absent file the
\* call goes on to the next request.
Thm_C2_AbsentNoEntry ==
    \A n \in 1..8 :
        ~tree[FileOrder[n]].present =>
            /\ FileOrder[n] \notin DOMAIN app_configs
            /\ (pc = "done" /\ Len(requests) >= ReqPos(n)) => Len(requests) > ReqPos(n)

Wit_C2 ==
    /\ Returned
    /\ mode = "runway"
    /\ ~tree["build"].present
    /\ tree["dev"].present
    /\ DOMAIN app_configs = {"dev", "pipeline"}

\* C3: in a returned bundle the entry of an environment whose file is present
\* and valid JSON is the parsed value of that file, whatever the other files are.
Thm_C3_EntryIsParsedFile ==
    Returned =>
        \A e \in FixedEnvNames :
            WellFormed(e) => /\ e \in DOMAIN app_configs
                             /\ app_configs[e] = json_loads(tree[e].text)

Wit_C3 ==
    /\ Returned
    /\ mode = "git"
    /\ tree["prod"] = IsFile("{ \"instance_type\" : \"m5.large\" }")
    /\ app_configs["prod"] = JObject({<<"instance_type", JString("m5.large")>>})
    /\ tree["dev"].present

\* C4: with the pipeline file absent, the returned pipeline entry is
\* {"env": ["stage", "prod"]} in local mode and the same plus config_commit, the
\* commit of master, in remote mode; the absence itself never ends the call
\* abnormally.
Thm_C4_DefaultPipeline ==
    ~tree["pipeline"].present =>
        /\ (Returned /\ mode = "runway") =>
              app_configs["pipeline"] = JObject({<<"env", JList(<<"stage", "prod">>)>>})
        /\ (Returned /\ mode = "git") =>
              app_configs["pipeline"] =
                  JObject({<<"env", JList(<<"stage", "prod">>)>>,
                           <<"config_commit", JString(Sha[Len(history)])>>})
        /\ (pc = "done" /\ ~TokenMissing /\ ~AnyMalformed) => Returned

Wit_C4 ==
    /\ Returned
    /\ mode = "git"
    /\ ~tree["pipeline"].present
    /\ HasKey(app_configs["pipeline"], "config_commit")

\* C5 as stated: in remote mode, when every fetched file is parseable JSON, the
\* call returns a bundle whose pipeline.config_commit is the commit of master,
\* whatever valid JSON the pipeline file holds.
Orig_C5_AlwaysCommit ==
    (mode = "git" /\ pc = "done" /\ token_ok /\ ~AnyMalformed) =>
        /\ Returned
        /\ HasKey(app_configs["pipeline"], "config_commit")
        /\ GetKey(app_configs["pipeline"], "config_commit") = JString(Sha[Len(history)])

\* C5 amended: in remote mode, when every fetched file is parseable JSON and
\* pipeline.json is absent or holds a JSON object, the call returns a bundle
\* whose pipeline.config_commit is the commit of master (a config_commit of the
\* file is overwritten); when pipeline.json holds valid JSON that is not an
\* object, the call ends in a TypeError after the branch lookup and returns no
\* bundle.
Thm_C5_CommitOnObjects ==
    (mode = "git" /\ pc = "done" /\ token_ok /\ ~AnyMalformed) =>
        IF ~tree["pipeline"].present
           \/ tree["pipeline"].text \in {"{\"instance_type\":\"m5.large\"}",
                                         "{ \"instance_type\" : \"m5.large\" }",
                                         "{\"env\":[\"stage\"],\"config_commit\":\"old\"}"}
          THEN /\ Returned
               /\ HasKey(app_configs["pipeline"], "config_commit")
               /\ GetKey(app_configs["pipeline"], "config_commit") = JString(Sha[Len(history)])
          ELSE outcome = "error"

Wit_C5 ==
    /\ Returned
    /\ mode = "git"
    /\ tree["pipeline"] = IsFile("{\"env\":[\"stage\"],\"config_commit\":\"old\"}")
    /\ GetKey(app_configs["pipeline"], "config_commit") = JString("c1")

\* C6 as stated: in local mode the pipeline entry of a returned bundle never
\* has a config_commit field, whatever pipeline.json holds.
Orig_C6_NeverCommit ==
    (mode = "runway" /\ Returned) => ~HasKey(app_configs["pipeline"], "config_commit")

\* C6 amended: in local mode the loader adds no config_commit: the pipeline
\* entry of a returned bundle is the parsed pipeline.json when the file is
\* present (the default otherwise), so it has a config_commit field exactly when
\* pipeline.json itself holds one.
Thm_C6_NoCommitAdded ==
    (mode = "runway" /\ Returned) =>
        /\ tree["pipeline"].present => app_configs["pipeline"] = json_loads(tree["pipeline"].text)
        /\ HasKey(app_configs["pipeline"], "config_commit")
              <=> tree["pipeline"] = IsFile("{\"env\":[\"stage\"],\"config_commit\":\"old\"}")

Wit_C6 ==
    /\ Returned
    /\ mode = "runway"
    /\ tree["pipeline"] = IsFile("{\"instance_type\":\"m5.large\"}")
    /\ ~HasKey(app_configs["pipeline"], "config_commit")

\* C7 as stated: in both modes, when a tracked file is present and not
\* parseable JSON, the call ends in SystemExit with the invalid-json message
\* naming an offending file, and no bundle is returned.
Orig_C7_MalformedIsInvalidJson ==
    AnyMalformed =>
        /\ ~Returned
        /\ pc = "done" =>
              /\ outcome = "fatal"
              /\ \E f \in Files : Malformed(f) /\ msg = InvalidJsonMsg(f)

\* C7 amended: in both modes, when a tracked file is present and not parseable
\* JSON, the call ends in SystemExit and no bundle is returned; the message is
\* the invalid-json message naming the first such file in reading order, except
\* in remote mode with the token file missing, where it is the token-missing
\* message (no file is fetched).
Thm_C7_MalformedIsFatal ==
    AnyMalformed =>
        /\ ~Returned
        /\ pc = "done" =>
              /\ outcome = "fatal"
              /\ msg = IF TokenMissing
                         THEN "GitLab private token file missing: gitlab.token"
                         ELSE InvalidJsonMsg(FirstBad)

Wit_C7 ==
    /\ outcome = "fatal"
    /\ mode = "runway"
    /\ runway_dir = "runway"
    /\ Malformed("pipeline")
    /\ WellFormed("prods")
    /\ msg = "\"runway/pipeline.json\" appears to be invalid json. Please validate it with http://jsonlint.com."

\* C8: in remote mode with the token file missing the call ends in SystemExit
\* with 'GitLab private token file missing: {path}', and no getproject, getfile
\* or getbranch request is ever made.
Thm_C8_NoNetworkWithoutToken ==
    TokenMissing =>
        /\ \A n \in 1..Len(requests) : requests[n].op \notin {"getproject", "getfile", "getbranch"}
        /\ project_id = 0
        /\ pc = "done" =>
              (outcome = "fatal" /\ msg = "GitLab private token file missing: gitlab.token")
        /\ pc \in {"token", "done"}

Wit_C8 ==
    /\ TokenMissing
    /\ outcome = "fatal"
    /\ requests = <<Req("open", "gitlab.token")>>

\* C9: in remote mode, whatever pushes land on master during the call, every
\* entry of the returned bundle is the content of its runway/ file at the commit
\* named by pipeline.config_commit.
CommitOf(sha) == CHOOSE n \in 1..Len(Sha) : Sha[n] = sha

Orig_C9_ReadAtConfigCommit ==
    (mode = "git" /\ Returned) =>
        LET sha  == GetKey(app_configs["pipeline"], "config_commit").v[1]
            snap == history[CommitOf(sha)]
        IN  /\ \A e \in FixedEnvNames :
                 /\ e \in DOMAIN app_configs <=> snap[e].present
                 /\ snap[e].present => app_configs[e] = json_loads(snap[e].text)
            /\ app_configs["pipeline"] =
                 SetItem(IF snap["pipeline"].present THEN json_loads(snap["pipeline"].text)
                         ELSE JObject({<<"env", JList(<<"stage", "prod">>)>>}),
                         "config_commit", JString(sha))

\* C10: the requests of a call are made in one fixed order (remote: token file,
\* project, the 8 application files in the order of the list, pipeline.json, the
\* master branch; local: the 8 application files, then pipeline.json), and a
\* call that finds a malformed file makes no request after the one for that file.
ExpectedGit ==
    <<Req("open", "gitlab.token"),
      Req("getproject", "forrest/core"),
      Req("getfile", "runway/application-master-build.json"),
      Req("getfile", "runway/application-master-dev.json"),
      Req("getfile", "runway/application-master-stage.json"),
      Req("getfile", "runway/application-master-prod.json"),
      Req("getfile", "runway/application-master-prodp.json"),
      Req("getfile", "runway/application-master-stagepci.json"),
      Req("getfile", "runway/application-master-prods.json"),
      Req("getfile", "runway/application-master-stagesox.json"),
      Req("getfile", "runway/pipeline.json"),
      Req("getbranch", "master")>>

ExpectedRunway ==
    LET d == IF runway_dir = "" THEN "" ELSE runway_dir \o "/"
    IN  <<Req("open", d \o "application-master-build.json"),
          Req("open", d \o "application-master-dev.json"),
          Req("open", d \o "application-master-stage.json"),
          Req("open", d \o "application-master-prod.json"),
          Req("open", d \o "application-master-prodp.json"),
          Req("open", d \o "application-master-stagepci.json"),
          Req("open", d \o "application-master-prods.json"),
          Req("open", d \o "application-master-stagesox.json"),
          Req("open", d \o "pipeline.json")>>

Expected == IF mode = "git" THEN ExpectedGit ELSE ExpectedRunway

PosInOrder(f) == CHOOSE n \in 1..Len(FileOrder) : FileOrder[n] = f

Thm_C10_OrderAndStop ==
    /\ Len(requests) <= Len(Expected)
    /\ requests = SubSeq(Expected, 1, Len(requests))
    /\ (pc = "done" /\ outcome \in {"returned", "error"}) => requests = Expected
    /\ (AnyMalformed /\ ~TokenMissing) => Len(requests) <= ReqPos(PosInOrder(FirstBad))

Wit_C10 ==
    /\ outcome = "fatal"
    /\ mode = "git"
    /\ Malformed("stage")
    /\ Malformed("prods")
    /\ Len(requests) = 5
    /\ requests[5] = Req("getfile", "runway/application-master-stage.json")

====
